---- MODULE Spec2Model ----
(***************************************************************************)
(* fortio.FortranFile: reader/writer of Fortran unformatted sequential     *)
(* files.  The file is a sequence of bytes; a handle keeps the header      *)
(* dtype (width, signedness, byte order), the size snapshot, the cursor of *)
(* the underlying file object and, after _check_file, the record index.    *)
(* Every method is an operator that returns the handle fields it changes   *)
(* together with the exception it raises ("none" when it returns).         *)
(***************************************************************************)
EXTENDS Integers, Sequences, FiniteSets, TLC

VARIABLES exists, disk, h, last, written

vars == <<exists, disk, h, last, written>>

(***************************************************************************)
(* Bounds of the model.  Bytes are ByteBits wide instead of 8, so that the *)
(* whole range of the header type, its extremes included, fits in files of *)
(* a few bytes.                                                            *)
(***************************************************************************)
ByteBits == 2
MaxFileLen == 12
MaxWrites == 2
MaxRec == 3

\* header_dtype.itemsize: number of bytes of a record header.
HeaderWidth == 2

Base == 2 ^ ByteBits
Modulus == Base ^ HeaderWidth
\* np.iinfo(header_dtype).max of the unsigned header type
UMax == Modulus - 1
\* least value of the signed header type
IMin == 0 - (Modulus \div 2)

Orders == {"little", "big"}
\* byte order of a header_dtype given without '<' or '>'
Native == "little"

\* dtype.newbyteorder()
newbyteorder(o) == IF o = "little" THEN "big" ELSE "little"

Abs(x) == IF x < 0 THEN 0 - x ELSE x

Min(a, b) == IF a < b THEN a ELSE b

Max(a, b) == IF a < b THEN b ELSE a

Reverse(s) == [i \in 1..Len(s) |-> s[Len(s) + 1 - i]]

RECURSIVE Repeat(_, _)
Repeat(b, n) == IF n <= 0 THEN <<>> ELSE <<b>> \o Repeat(b, n - 1)

(***************************************************************************)
(* The header integer on disk.                                             *)
(***************************************************************************)
\* value -> HeaderWidth bytes (ndarray.tofile of a 0-d array of header_dtype)
EncodeHeader(v, order) ==
    LET raw == v % Modulus
        le == [i \in 1..HeaderWidth |-> (raw \div (Base ^ (i - 1))) % Base]
    IN IF order = "little" THEN le ELSE Reverse(le)

RECURSIVE SumDigits(_, _)
SumDigits(le, i) ==
    IF i > Len(le) THEN 0 ELSE le[i] * (Base ^ (i - 1)) + SumDigits(le, i + 1)

\* HeaderWidth bytes -> value of header_dtype (np.fromfile)
DecodeHeader(bytes, order, long) ==
    LET raw == SumDigits(IF order = "little" THEN bytes ELSE Reverse(bytes), 1)
    IN IF long /\ raw >= Modulus \div 2 THEN raw - Modulus ELSE raw

\* abs() of a numpy signed scalar: the least value has no positive
\* counterpart and comes back unchanged
np_abs(x) == IF x = IMin THEN IMin ELSE Abs(x)

\* unary minus of a numpy signed scalar
np_neg(x) == IF x = IMin THEN IMin ELSE 0 - x

IsValueError(e) ==
    e \in {"ValueError.unpack", "ValueError.inconsistent", "ValueError.invalid",
           "ValueError.multiple", "ValueError.shape", "ValueError.buffer",
           "ValueError.toolong", "ValueError.memmap", "ValueError.mmap"}

(***************************************************************************)
(* Lines 34-41: the two consistency checks.                                *)
(***************************************************************************)
\* a check that lets every pair of headers pass
assert_header_any(head, tail) == TRUE

assert_header_equal(head, tail) == head = tail

assert_header_abs_equal(head, tail) == ~((head # tail) /\ (head # np_neg(tail)))

(***************************************************************************)
(* _read_header: one header_dtype item at the cursor.  np.fromfile returns *)
(* an empty array when fewer than HeaderWidth bytes are left (the partial  *)
(* item is consumed) and the unpacking `head, = ...` raises ValueError.    *)
(* On a file object opened 'wb' the read itself is refused.                *)
(***************************************************************************)
read_header(d, pos, f) ==
    IF f.mode = "w"
    THEN [err |-> "OSError.read", pos |-> pos, val |-> 0]
    ELSE IF pos + HeaderWidth <= Len(d)
    THEN [err |-> "none", pos |-> pos + HeaderWidth,
          val |-> DecodeHeader(SubSeq(d, pos + 1, pos + HeaderWidth), f.order, f.long)]
    ELSE [err |-> "ValueError.unpack", pos |-> Max(pos, Len(d)), val |-> 0]

(***************************************************************************)
(* skip_record, lines 177-195.  Where a method goes on with what a call    *)
(* has returned, the rest of the method is an operator of its own that     *)
(* takes the returned value as its last argument.                          *)
(***************************************************************************)
\* one pass of the loop body: header, relative seek, footer, check
skip_subrecord(d, pos, f) ==
    LET hd == read_header(d, pos, f)
        off == IF f.long THEN np_abs(hd.val) ELSE hd.val
        tl == read_header(d, hd.pos + off, f)
        good == IF f.long THEN assert_header_abs_equal(hd.val, tl.val)
                          ELSE assert_header_equal(hd.val, tl.val)
    IN IF hd.err # "none" THEN [err |-> hd.err, pos |-> hd.pos, head |-> 0]
       ELSE IF hd.pos + off < 0 THEN [err |-> "OSError.seek", pos |-> hd.pos, head |-> 0]
       ELSE IF tl.err # "none" THEN [err |-> tl.err, pos |-> tl.pos, head |-> 0]
       ELSE IF ~good THEN [err |-> "ValueError.inconsistent", pos |-> tl.pos, head |-> 0]
       ELSE [err |-> "none", pos |-> tl.pos, head |-> hd.val]

\* the `while True` loop of the long branch; it does not return when the
\* cursor comes back to a subrecord it has already passed ("hang")
RECURSIVE skip_chain(_, _, _, _, _)
\* the loop after the pass s: total += abs(int(head)); if head >= 0: break
skip_chain_after(d, f, total, fuel, s) ==
    IF s.err # "none" THEN [err |-> s.err, pos |-> s.pos, val |-> total]
    ELSE IF s.head >= 0 THEN [err |-> "none", pos |-> s.pos, val |-> total + Abs(s.head)]
    ELSE skip_chain(d, s.pos, f, total + Abs(s.head), fuel - 1)

skip_chain(d, pos, f, total, fuel) ==
    IF fuel = 0 THEN [err |-> "hang", pos |-> pos, val |-> total]
    ELSE skip_chain_after(d, f, total, fuel, skip_subrecord(d, pos, f))

\* the body of the simple branch after its pass r: total += int(head)
skip_simple(total, r) == [err |-> r.err, pos |-> r.pos, val |-> total + r.head]

\* one turn of `for i in range(nrec)`
skip_one(d, pos, f, total) ==
    IF f.long THEN skip_chain(d, pos, f, total, Len(d) + 1)
    ELSE skip_simple(total, skip_subrecord(d, pos, f))

RECURSIVE skip_from(_, _, _, _, _)
\* the turns that are left after the turn s
skip_from_after(d, f, nrec, total, s) ==
    IF s.err # "none" THEN [err |-> s.err, pos |-> s.pos, val |-> total]
    ELSE skip_from(d, s.pos, f, nrec - 1, s.val)

skip_from(d, pos, f, nrec, total) ==
    IF nrec <= 0 THEN [err |-> "none", pos |-> pos, val |-> total]
    ELSE skip_from_after(d, f, nrec, total, skip_one(d, pos, f, total))

skip_record(d, f, nrec) == skip_from(d, f.pos, f, nrec, 0)

(***************************************************************************)
(* goto_record, lines 225-231.  rec is <<>> for None and <<n>> for n.      *)
(* self._offsets[rec] is a Python list subscript: a negative rec counts    *)
(* from the end, anything outside -N..N-1 raises IndexError.               *)
(***************************************************************************)
PyIndexOk(n, len) == (0 - len) <= n /\ n < len

PyIndex(s, n) == IF n < 0 THEN s[Len(s) + n + 1] ELSE s[n + 1]

goto_record(d, f, rec) ==
    IF rec = <<>> THEN [err |-> "none", pos |-> f.pos, val |-> 0]
    ELSE IF f.indexed
    THEN IF PyIndexOk(rec[1], Len(f.offsets))
         THEN [err |-> "none", pos |-> PyIndex(f.offsets, rec[1]), val |-> 0]
         ELSE [err |-> "IndexError", pos |-> f.pos, val |-> 0]
    ELSE skip_from(d, 0, f, rec[1], 0)

\* a size query that looks the record up in the wrong list of the index
get_record_size_offsets(d, f, rec) ==
    IF rec # <<>> /\ f.indexed /\ PyIndexOk(rec[1], Len(f.offsets))
    THEN [err |-> "none", pos |-> f.pos, val |-> PyIndex(f.offsets, rec[1])]
    ELSE [err |-> "IndexError", pos |-> f.pos, val |-> 0]

(***************************************************************************)
(* get_record_size, lines 247-257.                                         *)
(***************************************************************************)
\* a size query that leaves the cursor where the measuring has taken it
get_record_size_unrestored(f, s) ==
    IF s.err # "none" THEN [err |-> s.err, pos |-> s.pos, val |-> 0]
    ELSE [err |-> "none", pos |-> s.pos, val |-> s.val]

\* lines 255-257, s being what skip_record or _read_header has returned:
\* self._fp.seek(pos); return size
get_record_size_measured(f, s) ==
    IF s.err # "none" THEN [err |-> s.err, pos |-> s.pos, val |-> 0]
    ELSE [err |-> "none", pos |-> f.pos, val |-> s.val]

\* a size query that skips the record in simple mode too
get_record_size_skipping(d, f, g) ==
    IF g.err # "none" THEN [err |-> g.err, pos |-> g.pos, val |-> 0]
    ELSE get_record_size_measured(f, skip_record(d, [f EXCEPT !.pos = g.pos], 1))

\* lines 251-254, g being what goto_record has returned
get_record_size_at(d, f, g) ==
    IF g.err # "none" THEN [err |-> g.err, pos |-> g.pos, val |-> 0]
    ELSE get_record_size_measured(f, IF f.long
                                     THEN skip_record(d, [f EXCEPT !.pos = g.pos], 1)
                                     ELSE read_header(d, g.pos, f))

get_record_size(d, f, rec) ==
    IF rec # <<>> /\ f.indexed
    THEN IF PyIndexOk(rec[1], Len(f.lengths))
         THEN [err |-> "none", pos |-> f.pos, val |-> PyIndex(f.lengths, rec[1])]
         ELSE [err |-> "IndexError", pos |-> f.pos, val |-> 0]
    ELSE get_record_size_at(d, f, goto_record(d, f, rec))

(***************************************************************************)
(* The handle.  st is the life of the FortranFile object ("failed": the    *)
(* constructor raised), fp the state of the file object self._fp.         *)
(***************************************************************************)
NoHandle ==
    [st |-> "none", fp |-> "none", mode |-> "r", long |-> FALSE, order |-> Native,
     filesize |-> 0, pos |-> 0, indexed |-> FALSE, offsets |-> <<>>, lengths |-> <<>>]

\* a probe that reports failure of the first attempt and never tries the
\* other byte order
check_byteorder_once(d, f) ==
    LET g1 == goto_record(d, f, <<1>>)
    IN IF g1.err = "none" THEN [err |-> "none", order |-> f.order, pos |-> g1.pos, fp |-> "open"]
       ELSE IF ~IsValueError(g1.err)
       THEN [err |-> g1.err, order |-> f.order, pos |-> g1.pos, fp |-> "open"]
       ELSE [err |-> "ValueError.invalid", order |-> f.order, pos |-> g1.pos, fp |-> "closed"]

(***************************************************************************)
(* _check_byteorder, lines 114-126.  Only ValueError is caught.            *)
(***************************************************************************)
\* lines 120-126, g2 being what the second goto_record(1) has returned
check_byteorder_second(f2, g2) ==
    IF g2.err = "none" THEN [err |-> "none", order |-> f2.order, pos |-> g2.pos, fp |-> "open"]
    ELSE IF ~IsValueError(g2.err)
    THEN [err |-> g2.err, order |-> f2.order, pos |-> g2.pos, fp |-> "open"]
    ELSE [err |-> "ValueError.invalid", order |-> f2.order, pos |-> g2.pos, fp |-> "closed"]

\* lines 119-120: the probe once more, f2 having the other byte order
check_byteorder_retry(d, f2) == check_byteorder_second(f2, goto_record(d, f2, <<1>>))

\* lines 117-118, g1 being what the first goto_record(1) has returned
check_byteorder_first(d, f, g1) ==
    IF g1.err = "none" THEN [err |-> "none", order |-> f.order, pos |-> g1.pos, fp |-> "open"]
    ELSE IF ~IsValueError(g1.err)
    THEN [err |-> g1.err, order |-> f.order, pos |-> g1.pos, fp |-> "open"]
    ELSE check_byteorder_retry(d, [f EXCEPT !.order = newbyteorder(f.order), !.pos = g1.pos])

check_byteorder(d, f) == check_byteorder_first(d, f, goto_record(d, f, <<1>>))

(***************************************************************************)
(* _check_file, lines 129-144.                                             *)
(***************************************************************************)
RECURSIVE scan_records(_, _, _, _, _, _)
\* lines 136-138, s being what skip_record() has returned
scan_records_after(d, pos, f, offsets, lengths, fuel, s) ==
    IF s.err # "none"
    THEN [err |-> s.err, pos |-> s.pos, offsets |-> offsets, lengths |-> lengths]
    ELSE scan_records(d, s.pos, f, Append(offsets, pos), Append(lengths, s.val), fuel - 1)

scan_records(d, pos, f, offsets, lengths, fuel) ==
    IF pos = f.filesize
    THEN [err |-> "none", pos |-> pos, offsets |-> offsets, lengths |-> lengths]
    ELSE IF fuel = 0
    THEN [err |-> "hang", pos |-> pos, offsets |-> offsets, lengths |-> lengths]
    ELSE scan_records_after(d, pos, f, offsets, lengths, fuel, skip_from(d, pos, f, 1, 0))

\* lines 139-144, r being the outcome of the loop
check_file_scanned(r) ==
    IF r.err = "none"
    THEN [err |-> "none", pos |-> r.pos, fp |-> "open", indexed |-> TRUE,
          offsets |-> r.offsets, lengths |-> r.lengths]
    ELSE IF IsValueError(r.err)
    THEN [err |-> "ValueError.invalid", pos |-> r.pos, fp |-> "closed", indexed |-> FALSE,
          offsets |-> <<>>, lengths |-> <<>>]
    ELSE [err |-> r.err, pos |-> r.pos, fp |-> "open", indexed |-> FALSE,
          offsets |-> <<>>, lengths |-> <<>>]

check_file(d, f) == check_file_scanned(scan_records(d, 0, f, <<>>, <<>>, Len(d) + 2))

(***************************************************************************)
(* __init__, lines 69-94.  os.path.getsize runs before open(): a path that *)
(* does not exist raises FileNotFoundError in either mode, and in mode 'w' *)
(* filesize is the size before open() truncates the file.                  *)
(***************************************************************************)
\* lines 82-87: the attributes set before the checks
init_fields(d, mode, order, long) ==
    [NoHandle EXCEPT !.st = "open", !.fp = "open", !.mode = mode, !.long = long,
                     !.order = order, !.filesize = Len(d)]

\* line 94, c being what _check_file has returned (or no check)
init_checked(d, f1, c) ==
    IF c.err # "none"
    THEN [err |-> c.err, h |-> [NoHandle EXCEPT !.st = "failed", !.fp = c.fp],
          disk |-> d, exists |-> TRUE]
    ELSE [err |-> "none",
          h |-> [f1 EXCEPT !.pos = 0, !.indexed = c.indexed, !.offsets = c.offsets,
                           !.lengths = c.lengths],
          disk |-> d, exists |-> TRUE]

\* lines 92-93
init_check_file(d, f1, check) ==
    init_checked(d, f1, IF check THEN check_file(d, f1)
                        ELSE [err |-> "none", pos |-> f1.pos, fp |-> "open",
                              indexed |-> FALSE, offsets |-> <<>>, lengths |-> <<>>])

\* lines 90-93, b being what _check_byteorder has returned (or no probe)
init_probed(d, f0, check, b) ==
    IF b.err # "none"
    THEN [err |-> b.err, h |-> [NoHandle EXCEPT !.st = "failed", !.fp = b.fp],
          disk |-> d, exists |-> TRUE]
    ELSE init_check_file(d, [f0 EXCEPT !.order = b.order, !.pos = b.pos], check)

FortranFile(ex, d, mode, order, long, auto, check) ==
    IF ~ex
    THEN [err |-> "FileNotFoundError", h |-> [NoHandle EXCEPT !.st = "failed"],
          disk |-> d, exists |-> FALSE]
    ELSE IF mode = "w"
    THEN [err |-> "none", h |-> init_fields(d, mode, order, long), disk |-> <<>>,
          exists |-> TRUE]
    ELSE init_probed(d, init_fields(d, mode, order, long), check,
                     IF auto THEN check_byteorder(d, init_fields(d, mode, order, long))
                     ELSE [err |-> "none", order |-> order, pos |-> 0, fp |-> "open"])

\* close, line 359; a closed file object has no cursor
close(f) == [f EXCEPT !.st = "closed", !.fp = "closed", !.pos = 0]

(***************************************************************************)
(* write_record, lines 149-163.  tofile writes at the cursor of the file   *)
(* object, over whatever bytes are there.                                  *)
(***************************************************************************)
WriteAt(d, pos, bytes) ==
    SubSeq(d, 1, pos) \o bytes \o SubSeq(d, pos + Len(bytes) + 1, Len(d))

Envelope(data, order) ==
    EncodeHeader(Len(data), order) \o data \o EncodeHeader(Len(data), order)

\* a write that does not look at the mode or at the header type
write_record_ungated(d, f, data) ==
    IF Len(data) > UMax
    THEN [err |-> "ValueError.toolong", pos |-> f.pos, disk |-> d, val |-> 0]
    ELSE [err |-> "none", pos |-> f.pos + Len(Envelope(data, f.order)),
          disk |-> WriteAt(d, f.pos, Envelope(data, f.order)), val |-> Len(data)]

\* a write that finds the payload too long after the header has gone out
write_record_late(d, f, data) ==
    IF f.mode # "w" THEN [err |-> "IOError", pos |-> f.pos, disk |-> d, val |-> 0]
    ELSE IF f.long THEN [err |-> "NotImplementedError", pos |-> f.pos, disk |-> d, val |-> 0]
    ELSE IF Len(data) > UMax
    THEN [err |-> "ValueError.toolong", pos |-> f.pos + HeaderWidth,
          disk |-> WriteAt(d, f.pos, EncodeHeader(Len(data), f.order)), val |-> 0]
    ELSE [err |-> "none", pos |-> f.pos + Len(Envelope(data, f.order)),
          disk |-> WriteAt(d, f.pos, Envelope(data, f.order)), val |-> Len(data)]

write_record(d, f, data) ==
    IF f.mode # "w" THEN [err |-> "IOError", pos |-> f.pos, disk |-> d, val |-> 0]
    ELSE IF f.long THEN [err |-> "NotImplementedError", pos |-> f.pos, disk |-> d, val |-> 0]
    ELSE IF Len(data) > UMax
    THEN [err |-> "ValueError.toolong", pos |-> f.pos, disk |-> d, val |-> 0]
    ELSE [err |-> "none", pos |-> f.pos + Len(Envelope(data, f.order)),
          disk |-> WriteAt(d, f.pos, Envelope(data, f.order)), val |-> Len(data)]

(***************************************************************************)
(* _read_record_data, lines 199-215.  data is the byte array to fill; a    *)
(* byte that readinto has not written keeps its previous content.          *)
(***************************************************************************)
\* a bound of a Python slice on a sequence of len items
PyBound(x, len) == IF x < 0 THEN Max(0, x + len) ELSE Min(x, len)

\* one pass of the loop body: header, readinto(data[total:stop]), footer, check
read_subrecord(d, pos, f, buf, total) ==
    LET hd == read_header(d, pos, f)
        stop == IF f.long THEN total + np_abs(hd.val) ELSE hd.val
        a == PyBound(total, Len(buf))
        b == PyBound(stop, Len(buf))
        n == Min(Max(0, b - a), Max(0, Len(d) - hd.pos))
        nbuf == [i \in 1..Len(buf) |-> IF a < i /\ i <= a + n THEN d[hd.pos + i - a] ELSE buf[i]]
        tl == read_header(d, hd.pos + n, f)
        good == IF f.long THEN assert_header_abs_equal(hd.val, tl.val)
                          ELSE assert_header_equal(hd.val, tl.val)
    IN IF hd.err # "none"
       THEN [err |-> hd.err, pos |-> hd.pos, head |-> 0, nread |-> 0, buf |-> buf]
       ELSE IF tl.err # "none"
       THEN [err |-> tl.err, pos |-> tl.pos, head |-> hd.val, nread |-> n, buf |-> nbuf]
       ELSE IF ~good
       THEN [err |-> "ValueError.inconsistent", pos |-> tl.pos, head |-> hd.val,
             nread |-> n, buf |-> nbuf]
       ELSE [err |-> "none", pos |-> tl.pos, head |-> hd.val, nread |-> n, buf |-> nbuf]

RECURSIVE read_chain(_, _, _, _, _, _)
\* a loop that does not move on in the buffer: every subrecord is read
\* into the start of it
read_chain_overwriting(d, f, total, fuel, r) ==
    IF r.err # "none" THEN [err |-> r.err, pos |-> r.pos, val |-> total, buf |-> r.buf]
    ELSE IF r.head >= 0
    THEN [err |-> "none", pos |-> r.pos, val |-> total + r.nread, buf |-> r.buf]
    ELSE read_chain(d, r.pos, f, r.buf, total, fuel - 1)

\* the loop after the pass r: total += nread; if head >= 0: break
read_chain_after(d, f, total, fuel, r) ==
    IF r.err # "none" THEN [err |-> r.err, pos |-> r.pos, val |-> total, buf |-> r.buf]
    ELSE IF r.head >= 0
    THEN [err |-> "none", pos |-> r.pos, val |-> total + r.nread, buf |-> r.buf]
    ELSE read_chain(d, r.pos, f, r.buf, total + r.nread, fuel - 1)

read_chain(d, pos, f, buf, total, fuel) ==
    IF fuel = 0 THEN [err |-> "hang", pos |-> pos, val |-> total, buf |-> buf]
    ELSE read_chain_after(d, f, total, fuel, read_subrecord(d, pos, f, buf, total))

\* the simple branch after its pass r
read_simple(r) == [err |-> r.err, pos |-> r.pos, val |-> r.nread, buf |-> r.buf]

read_record_data(d, f, buf) ==
    IF f.long THEN read_chain(d, f.pos, f, buf, 0, Len(d) + 1)
    ELSE read_simple(read_subrecord(d, f.pos, f, buf, 0))

\* content of a byte np.empty() has not been given
Uninit == Base

(***************************************************************************)
(* read_record, lines 297-317 (mmap_record, line 275, is memmap = TRUE).   *)
(* itemsize is dtype.itemsize; shape is <<>> for None and <<n>> for n.     *)
(* np.memmap refuses a window that ends beyond the end of the file.        *)
(***************************************************************************)
\* lines 316-317, r being what _read_record_data has returned
read_record_filled(r) ==
    IF r.err # "none" THEN [err |-> r.err, pos |-> r.pos, data |-> <<>>]
    ELSE [err |-> "none", pos |-> r.pos, data |-> r.buf]

\* a map whose window starts at the header of the record
read_record_mapped_header(d, fg, size, k) ==
    IF k.err # "none" THEN [err |-> k.err, pos |-> k.pos, data |-> <<>>]
    ELSE [err |-> "none", pos |-> k.pos, data |-> SubSeq(d, fg.pos + 1, fg.pos + size)]

\* lines 311-313, k being what skip_record() has returned
read_record_mapped(d, fg, size, k) ==
    IF k.err # "none" THEN [err |-> k.err, pos |-> k.pos, data |-> <<>>]
    ELSE [err |-> "none", pos |-> k.pos,
          data |-> SubSeq(d, fg.pos + HeaderWidth + 1, fg.pos + HeaderWidth + size)]

\* lines 302-317, sz being what get_record_size() has returned with the
\* cursor of fg at the record
read_record_sized(d, fg, itemsize, shape, memmap, sz) ==
    IF sz.err # "none" THEN [err |-> sz.err, pos |-> sz.pos, data |-> <<>>]
    ELSE IF sz.val % itemsize # 0
    THEN [err |-> "ValueError.multiple", pos |-> fg.pos, data |-> <<>>]
    ELSE IF shape # <<>> /\ sz.val # itemsize * shape[1]
    THEN [err |-> "ValueError.shape", pos |-> fg.pos, data |-> <<>>]
    ELSE IF memmap
    THEN IF fg.pos + HeaderWidth + sz.val > Len(d)
         THEN [err |-> "ValueError.mmap", pos |-> fg.pos, data |-> <<>>]
         ELSE read_record_mapped(d, fg, sz.val, skip_record(d, fg, 1))
    ELSE read_record_filled(read_record_data(d, fg, Repeat(Uninit, sz.val)))

\* lines 300-301, g being what goto_record(rec) has returned
read_record_at(d, f, itemsize, shape, memmap, g) ==
    IF g.err # "none" THEN [err |-> g.err, pos |-> g.pos, data |-> <<>>]
    ELSE read_record_sized(d, [f EXCEPT !.pos = g.pos], itemsize, shape, memmap,
                           get_record_size(d, [f EXCEPT !.pos = g.pos], <<>>))

read_record(d, f, itemsize, shape, rec, memmap) ==
    IF f.long /\ memmap THEN [err |-> "ValueError.memmap", pos |-> f.pos, data |-> <<>>]
    ELSE read_record_at(d, f, itemsize, shape, memmap, goto_record(d, f, rec))

mmap_record(d, f, itemsize, shape, rec) == read_record(d, f, itemsize, shape, rec, TRUE)

(***************************************************************************)
(* read_record_into, lines 341-355.  into is the caller's array as bytes,  *)
(* bo its dtype.byteorder ("=" native, "S" swapped, "|" for one-byte       *)
(* items), offset is <<>> for None.  self.byteorder is "=" for a native    *)
(* header dtype.                                                           *)
(***************************************************************************)
byteorder(f) == IF f.order = Native THEN "=" ELSE "S"

\* first item of into[offset:], lines 344-347
into_start(into, offset) == IF offset = <<>> THEN 0 ELSE PyBound(offset[1], Len(into))

\* line 355, r being what _read_record_data(data) has returned
read_record_into_filled(into, a0, r) ==
    [err |-> r.err, pos |-> r.pos, val |-> IF r.err = "none" THEN r.val ELSE 0,
     into |-> SubSeq(into, 1, a0) \o r.buf]

\* lines 351-355, sz being what get_record_size() has returned
read_record_into_sized(d, fg, into, a0, sz) ==
    IF sz.err # "none" THEN [err |-> sz.err, pos |-> sz.pos, val |-> 0, into |-> into]
    ELSE IF sz.val > Len(into) - a0
    THEN [err |-> "ValueError.buffer", pos |-> fg.pos, val |-> 0, into |-> into]
    ELSE read_record_into_filled(into, a0,
                                 read_record_data(d, fg, SubSeq(into, a0 + 1, Len(into))))

\* lines 349-350, g being what goto_record(rec) has returned
read_record_into_at(d, f, into, a0, g) ==
    IF g.err # "none" THEN [err |-> g.err, pos |-> g.pos, val |-> 0, into |-> into]
    ELSE read_record_into_sized(d, [f EXCEPT !.pos = g.pos], into, a0,
                                get_record_size(d, [f EXCEPT !.pos = g.pos], <<>>))

read_record_into(d, f, into, bo, offset, rec) ==
    IF bo # byteorder(f) THEN [err |-> "TypeError", pos |-> f.pos, val |-> 0, into |-> into]
    ELSE read_record_into_at(d, f, into, into_start(into, offset), goto_record(d, f, rec))

(***************************************************************************)
(* The files the handle is opened on.  A file is laid out from a list of   *)
(* subrecord headers (signed values; an unsigned header dtype reads the    *)
(* same bytes as value mod Modulus), in either byte order, and is either   *)
(* left whole or damaged in one place: one footer replaced, or the last    *)
(* bytes cut off.                                                          *)
(***************************************************************************)
HeadVals == {0 - 1, 0, 1, 2}

SubLen(hv) == 2 * HeaderWidth + Abs(hv)

RECURSIVE HeadSeqs(_)
HeadSeqs(room) ==
    {<<>>} \cup
    UNION {{<<hv>> \o rest : rest \in HeadSeqs(room - SubLen(hv))} :
           hv \in {x \in HeadVals : SubLen(x) <= room}}

\* longer lists: a header at the least value of the signed type, a chain of
\* three subrecords, two chains in a row
LongSeqs ==
    {<<IMin>>, <<IMin, 0>>, <<0, IMin, 0>>, <<0 - 1, 0 - 1, 2>>, <<0 - 1, 1, 0 - 1, 0>>}

PayloadOf(i, n) == [j \in 1..n |-> (i + j) % Base]

Footer(hv, i, fault) ==
    IF fault.k # i THEN hv
    ELSE IF fault.kind = "bad" THEN hv + 1
    ELSE IF fault.kind = "neg" THEN 0 - hv
    ELSE hv

RECURSIVE Layout(_, _, _, _)
Layout(heads, i, order, fault) ==
    IF i > Len(heads) THEN <<>>
    ELSE EncodeHeader(heads[i], order) \o PayloadOf(i, Abs(heads[i]))
         \o EncodeHeader(Footer(heads[i], i, fault), order)
         \o Layout(heads, i + 1, order, fault)

Faults(heads) ==
    {[kind |-> "none", k |-> 0]}
    \cup {[kind |-> "bad", k |-> i] : i \in 1..Len(heads)}
    \cup {[kind |-> "neg", k |-> i] : i \in {j \in 1..Min(1, Len(heads)) : heads[j] # 0}}
    \cup {[kind |-> "cut", k |-> c] : c \in 1..Min(HeaderWidth, Len(heads))}

FileOf(heads, order, fault) ==
    LET whole == Layout(heads, 1, order, fault)
    IN IF fault.kind = "cut" THEN SubSeq(whole, 1, Len(whole) - fault.k) ELSE whole

\* a file that is not laid out from a list of headers: a record of 3 bytes,
\* then (little-endian) a header at the least value of the signed type and
\* the header 4; 8 bytes before the end of that second header stand the
\* bytes 0, 2, which read as the least value again, and after them the
\* bytes 0, 1, which read as 4
OverlapFiles == {<<3, 0, 2, 0, 1, 3, 0, 0, 2, 0, 1>>}

InitFiles ==
    UNION {{FileOf(heads, order, fault) : order \in Orders, fault \in Faults(heads)} :
           heads \in HeadSeqs(MaxFileLen)}
    \cup {FileOf(heads, order, fault) :
          heads \in LongSeqs, order \in Orders,
          fault \in {[kind |-> "none", k |-> 0], [kind |-> "bad", k |-> 1]}}
    \cup OverlapFiles

(***************************************************************************)
(* Arguments of the calls.                                                 *)
(***************************************************************************)
RecArgs == {<<>>} \cup {<<n>> : n \in 0..MaxRec}

SkipCounts == 0..2

\* record numbers given to mmap_record and read_record_into
NearRecs == {<<>>, <<0>>, <<1>>}

\* payloads of write_record: empty, short, the longest the header can
\* count and one byte more
Payloads == {<<>>, <<2, 1>>, Repeat(0, UMax), Repeat(0, UMax + 1)}

\* dtype and shape of read_record and mmap_record: bytes, two-byte items,
\* one byte with shape 1
Bytes == [itemsize |-> 1, shape |-> <<>>]

ReadTypes == {Bytes, [itemsize |-> 2, shape |-> <<>>], [itemsize |-> 1, shape |-> <<1>>]}

\* the calls of read_record and of mmap_record: every record number as
\* bytes, the record at the cursor as every type
ReadCalls ==
    {[rec |-> rec, t |-> Bytes] : rec \in RecArgs}
    \cup {[rec |-> <<>>, t |-> t] : t \in ReadTypes}

MmapCalls ==
    {[rec |-> rec, t |-> Bytes] : rec \in NearRecs}
    \cup {[rec |-> <<>>, t |-> t] : t \in ReadTypes}

\* the caller's array of read_record_into (as bytes), its dtype.byteorder
\* and the offset argument
IntoArgs ==
    {[into |-> Repeat(3, 3), bo |-> "=", offset |-> <<>>],
     [into |-> Repeat(3, 3), bo |-> "=", offset |-> <<1>>],
     [into |-> Repeat(3, 1), bo |-> "=", offset |-> <<>>],
     [into |-> Repeat(3, 3), bo |-> "S", offset |-> <<>>],
     [into |-> Repeat(3, 3), bo |-> "|", offset |-> <<>>]}

\* the calls of read_record_into: every array for the record at the
\* cursor, the arrays of the handle's own byte order for a record number
IntoCalls ==
    {[rec |-> <<>>, a |-> a] : a \in IntoArgs}
    \cup {[rec |-> rec, a |-> a] : rec \in NearRecs, a \in {x \in IntoArgs : x.bo = "="}}

\* the constructor's arguments
Cfg(mode, order, long, auto, check) ==
    [mode |-> mode, order |-> order, long |-> long, auto |-> auto, check |-> check]

NoCfg == Cfg("r", Native, FALSE, FALSE, FALSE)

\* the call that is returning: its name and arguments, the exception it
\* raises ("none" when it returns), the value and the bytes it hands back
\* opt is the shape of a read, the offset of read_record_into; bo is the
\* byte order of the array given to read_record_into
Ret(op, arg, err, val, data) ==
    [op |-> op, arg |-> arg, cfg |-> NoCfg, opt |-> <<>>, bo |-> "", err |-> err,
     val |-> val, data |-> data]

\* no call is returning
Idle == Ret("idle", <<>>, "none", 0, <<>>)

\* History of the file: by = "writer" while its content is what one handle
\* opened 'w' in byte order `order` has written with its cursor never moved
\* back, recs being the payloads in call order; n counts the write_record
\* calls of the open handle.
NotWritten == [by |-> "other", recs |-> <<>>, order |-> Native, n |-> 0]

Init ==
    /\ exists \in BOOLEAN
    /\ disk \in (IF exists THEN InitFiles ELSE {<<>>})
    /\ h = NoHandle
    /\ last = Idle
    /\ written = NotWritten

(***************************************************************************)
(* One action per call on the handle.  On a handle opened 'w' the calls    *)
(* that read (skip_record, get_record_size and the three reads) raise at   *)
(* their first _read_header; the one trace they can leave, the cursor sent *)
(* to 0 by goto_record, is the step GotoRecord.                            *)
(***************************************************************************)
\* the constructor has returned r
Constructed(cfg, r) ==
    /\ h' = r.h
    /\ disk' = r.disk
    /\ exists' = r.exists
    /\ last' = [Ret("open", <<>>, r.err, 0, <<>>) EXCEPT !.cfg = cfg]
    /\ written' = IF cfg.mode = "w" /\ r.err = "none"
                  THEN [by |-> "writer", recs |-> <<>>, order |-> cfg.order, n |-> written.n]
                  ELSE written

Open ==
    /\ h.st # "open"
    /\ last = Idle
    /\ \E mode \in {"r", "w"}, order \in Orders, long \in BOOLEAN,
          auto \in BOOLEAN, check \in BOOLEAN :
          /\ mode = "w" => auto /\ check
          /\ Constructed(Cfg(mode, order, long, auto, check),
                         FortranFile(exists, disk, mode, order, long, auto, check))

\* nothing is called on the object once it is closed: of a closed handle
\* the model keeps that it is closed
Close ==
    /\ h.st = "open"
    /\ last = Idle
    /\ h' = [NoHandle EXCEPT !.st = close(h).st, !.fp = close(h).fp]
    /\ last' = Ret("close", <<>>, "none", 0, <<>>)
    /\ UNCHANGED <<exists, disk, written>>

\* write_record(data) has returned r
Wrote(data, r) ==
    /\ h' = [h EXCEPT !.pos = r.pos]
    /\ disk' = r.disk
    /\ last' = Ret("write_record", data, r.err, r.val, <<>>)
    /\ written' = IF r.err # "none" THEN written
                  ELSE IF written.by = "writer"
                  THEN [written EXCEPT !.recs = Append(@, data), !.n = @ + 1]
                  ELSE [written EXCEPT !.n = @ + 1]
    /\ UNCHANGED exists

WriteRecord ==
    /\ h.st = "open"
    /\ last = Idle
    /\ written.n < MaxWrites
    /\ \E data \in Payloads : Wrote(data, write_record(disk, h, data))

\* skip_record or get_record_size has returned r
Measured(op, arg, r) ==
    /\ h' = [h EXCEPT !.pos = r.pos]
    /\ last' = Ret(op, arg, r.err, r.val, <<>>)
    /\ UNCHANGED <<exists, disk, written>>

SkipRecord ==
    /\ h.st = "open"
    /\ h.mode = "r"
    /\ last = Idle
    /\ \E nrec \in SkipCounts : Measured("skip_record", <<nrec>>, skip_record(disk, h, nrec))

\* goto_record(rec) has returned r
Moved(rec, r) ==
    /\ h' = [h EXCEPT !.pos = r.pos]
    /\ last' = Ret("goto_record", rec, r.err, 0, <<>>)
    /\ written' = IF h.mode = "w" /\ r.pos # h.pos
                  THEN [NotWritten EXCEPT !.n = written.n]
                  ELSE written
    /\ UNCHANGED <<exists, disk>>

GotoRecord ==
    /\ h.st = "open"
    /\ last = Idle
    /\ \E rec \in RecArgs : Moved(rec, goto_record(disk, h, rec))

GetRecordSize ==
    /\ h.st = "open"
    /\ h.mode = "r"
    /\ last = Idle
    /\ \E rec \in RecArgs : Measured("get_record_size", rec, get_record_size(disk, h, rec))

\* read_record or mmap_record, called as c, has returned r
Fetched(op, c, r) ==
    /\ h' = [h EXCEPT !.pos = r.pos]
    /\ last' = [Ret(op, c.rec, r.err, c.t.itemsize, r.data) EXCEPT !.opt = c.t.shape]
    /\ UNCHANGED <<exists, disk, written>>

ReadRecord ==
    /\ h.st = "open"
    /\ h.mode = "r"
    /\ last = Idle
    /\ \E c \in ReadCalls :
          Fetched("read_record", c,
                  read_record(disk, h, c.t.itemsize, c.t.shape, c.rec, FALSE))

MmapRecord ==
    /\ h.st = "open"
    /\ h.mode = "r"
    /\ last = Idle
    /\ \E c \in MmapCalls :
          Fetched("mmap_record", c, mmap_record(disk, h, c.t.itemsize, c.t.shape, c.rec))

\* read_record_into, called as c, has returned r
Filled(c, r) ==
    /\ h' = [h EXCEPT !.pos = r.pos]
    /\ last' = [Ret("read_record_into", c.rec, r.err, r.val, r.into) EXCEPT
                    !.opt = c.a.offset, !.bo = c.a.bo]
    /\ UNCHANGED <<exists, disk, written>>

ReadRecordInto ==
    /\ h.st = "open"
    /\ h.mode = "r"
    /\ last = Idle
    /\ \E c \in IntoCalls :
          Filled(c, read_record_into(disk, h, c.a.into, c.a.bo, c.a.offset, c.rec))

\* the call has returned (or raised) and the caller goes on
Return ==
    /\ last # Idle
    /\ last' = Idle
    /\ UNCHANGED <<exists, disk, h, written>>

Next ==
    \/ Return
    \/ Open
    \/ Close
    \/ WriteRecord
    \/ SkipRecord
    \/ GotoRecord
    \/ GetRecordSize
    \/ ReadRecord
    \/ MmapRecord
    \/ ReadRecordInto

Spec == Init /\ [][Next]_vars

(***************************************************************************)
(* The format, read off the bytes without the handle: what the claims      *)
(* measure the calls against.                                              *)
(*   file := subrecord*                                                    *)
(*   subrecord := header payload(|header| bytes) footer                    *)
(***************************************************************************)
\* the subrecord of d that starts at pos (pos < Len(d)): whole when its
\* header, payload and footer are inside the file, ok when it is whole and
\* the footer matches the header
SubAt(d, pos, order, long) ==
    LET head == DecodeHeader(SubSeq(d, pos + 1, pos + HeaderWidth), order, long)
        tailAt == pos + HeaderWidth + Abs(head)
        tail == DecodeHeader(SubSeq(d, tailAt + 1, tailAt + HeaderWidth), order, long)
    IN IF pos + HeaderWidth > Len(d)
       THEN [off |-> pos, head |-> 0, tail |-> 0, whole |-> FALSE, ok |-> FALSE]
       ELSE IF tailAt + HeaderWidth > Len(d)
       THEN [off |-> pos, head |-> head, tail |-> 0, whole |-> FALSE, ok |-> FALSE]
       ELSE [off |-> pos, head |-> head, tail |-> tail, whole |-> TRUE,
             ok |-> IF long THEN Abs(tail) = Abs(head) ELSE tail = head]

\* the subrecords of d from pos on, up to the first one that is broken
RECURSIVE RefSubs(_, _, _, _)
RefSubs(d, pos, order, long) ==
    LET sb == SubAt(d, pos, order, long)
    IN IF pos >= Len(d) THEN <<>>
       ELSE IF ~sb.ok THEN <<sb>>
       ELSE <<sb>> \o RefSubs(d, pos + 2 * HeaderWidth + Abs(sb.head), order, long)

\* the logical records made of subs[i..]: a record ends at the first header
\* that is not negative
RECURSIVE RefGroup(_, _, _, _, _, _)
RefGroup(d, subs, i, off, size, data) ==
    LET sb == subs[i]
        n == Abs(sb.head)
        start == IF off < 0 THEN sb.off ELSE off
        piece == SubSeq(d, sb.off + HeaderWidth + 1, sb.off + HeaderWidth + n)
    IN IF i > Len(subs) THEN <<>>
       ELSE IF sb.head >= 0
       THEN <<[off |-> start, size |-> size + n, data |-> data \o piece,
               end |-> sb.off + 2 * HeaderWidth + n]>>
            \o RefGroup(d, subs, i + 1, 0 - 1, 0, <<>>)
       ELSE RefGroup(d, subs, i + 1, start, size + n, data \o piece)

\* d is a file of the format: whole, consistent subrecords and no chain
\* left open
ValidFile(d, order, long) ==
    LET subs == RefSubs(d, 0, order, long)
    IN /\ \A i \in 1..Len(subs) : subs[i].ok
       /\ Len(subs) > 0 => subs[Len(subs)].head >= 0

Records(d, order, long) == RefGroup(d, RefSubs(d, 0, order, long), 1, 0 - 1, 0, <<>>)

OpenRead == h.st = "open" /\ h.mode = "r"

\* the handle as check_file = False leaves it
Unindexed(f) == [f EXCEPT !.indexed = FALSE, !.offsets = <<>>, !.lengths = <<>>]

(***************************************************************************)
(* Round trip through a written file                                       *)
(***************************************************************************)
DefaultRead == Cfg("r", Native, FALSE, TRUE, TRUE)

\* one record was written by a handle with the default header type, and
\* nothing else is in the file
OneWritten == written.by = "writer" /\ Len(written.recs) = 1 /\ written.order = Native

\* C1: opening a path in write mode succeeds whether or not the path
\* existed; and after one write_record(data) and a close, opening the file
\* in read mode with the default flags succeeds and read_record(0) returns
\* exactly the bytes of data.
C1_WriteThenReadBack ==
    /\ (last.op = "open" /\ last.cfg.mode = "w" /\ ~last.cfg.long)
           => last.err = "none"
    /\ (last.op = "open" /\ last.cfg = DefaultRead /\ OneWritten)
           => last.err = "none"
    /\ (/\ last.op = "read_record" /\ last.arg = <<0>>
        /\ last.val = 1 /\ last.opt = <<>>
        /\ OpenRead /\ h.indexed /\ ~h.long /\ OneWritten)
           => (last.err = "none" /\ last.data = written.recs[1])

\* the part of C1 that is about a path that exists
C1_ExistingPath ==
    /\ (last.op = "open" /\ last.cfg.mode = "w" /\ ~last.cfg.long /\ exists)
           => last.err = "none"
    /\ (last.op = "open" /\ last.cfg = DefaultRead /\ OneWritten)
           => last.err = "none"
    /\ (/\ last.op = "read_record" /\ last.arg = <<0>>
        /\ last.val = 1 /\ last.opt = <<>>
        /\ OpenRead /\ h.indexed /\ ~h.long /\ OneWritten)
           => (last.err = "none" /\ last.data = written.recs[1])

(***************************************************************************)
(* Byte-order detection                                                    *)
(***************************************************************************)
\* an open of a file that exists, in read mode with auto_endian on, has
\* just returned
AutoOpened == exists /\ last.op = "open" /\ last.cfg.mode = "r" /\ last.cfg.auto

\* every record of the file, asked for by number with the default type,
\* comes back whole
ReadsAll(d, f) ==
    LET recs == Records(d, f.order, f.long)
    IN \A n \in 1..Len(recs) :
           LET r == read_record(d, f, 1, <<>>, <<n - 1>>, FALSE)
           IN r.err = "none" /\ r.data = recs[n].data

\* the first subrecord of d, read in the given order, is not a consistent
\* subrecord inside the file
FirstRecordBroken(d, order, long) == d # <<>> /\ ~SubAt(d, 0, order, long).ok

\* C2 as stated: for every valid file written in byte order B, an open in
\* read mode with the opposite order configured and auto-detection on
\* yields a handle whose order is B, and every read_record(n) of an
\* existing n then returns the payload of record n.  (Taken for the files
\* that are valid in order B only, so that B is the one order of the file;
\* the open of a file of no bytes fails as well.)
C2_DetectsEveryValidFile ==
    (/\ AutoOpened
     /\ ValidFile(disk, newbyteorder(last.cfg.order), last.cfg.long)
     /\ ~ValidFile(disk, last.cfg.order, last.cfg.long))
        => /\ last.err = "none"
           /\ h.order = newbyteorder(last.cfg.order)
           /\ ReadsAll(disk, h)

\* C2 amended: in simple mode, for every valid file in byte order B that has
\* a record and whose first record is not a consistent subrecord when read
\* in the opposite order, the open with the opposite order configured and
\* auto-detection on succeeds with order B, and read_record(n) returns the
\* payload of record n for every existing n, at the open and at every
\* later read_record(n).
C2_DetectsByFirstRecord ==
    /\ (/\ AutoOpened /\ ~last.cfg.long
        /\ ValidFile(disk, newbyteorder(last.cfg.order), FALSE)
        /\ FirstRecordBroken(disk, last.cfg.order, FALSE))
           => /\ last.err = "none"
              /\ h.order = newbyteorder(last.cfg.order)
              /\ ReadsAll(disk, h)
    /\ (/\ last.op = "read_record" /\ last.val = 1 /\ last.opt = <<>>
        /\ OpenRead /\ ~h.long /\ ValidFile(disk, h.order, FALSE)
        /\ Len(last.arg) = 1 /\ last.arg[1] < Len(Records(disk, h.order, FALSE)))
           => /\ last.err = "none"
              /\ last.data = Records(disk, h.order, FALSE)[last.arg[1] + 1].data

\* the order was flipped at the open of a file of two records
C2_Flipped ==
    /\ AutoOpened /\ ~last.cfg.long /\ last.err = "none"
    /\ h.order # last.cfg.order
    /\ ValidFile(disk, h.order, FALSE)
    /\ FirstRecordBroken(disk, last.cfg.order, FALSE)
    /\ Len(Records(disk, h.order, FALSE)) >= 2

(***************************************************************************)
(* With and without the index                                              *)
(***************************************************************************)
\* an indexed read handle on a file of the format
IndexedOnValid == OpenRead /\ h.indexed /\ ValidFile(disk, h.order, h.long)

\* C3: on a valid file, in simple and in long mode, from every cursor
\* position, get_record_size(n) on the handle with the index returns, for
\* every record number n of the file, the value that get_record_size(n)
\* returns on the handle without the index: the size of record n.
C3_IndexEquivalence ==
    IndexedOnValid =>
        \A n \in 1..Len(Records(disk, h.order, h.long)) :
            LET a == get_record_size(disk, h, <<n - 1>>)
                b == get_record_size(disk, Unindexed(h), <<n - 1>>)
            IN /\ a.err = "none" /\ b.err = "none"
               /\ a.val = b.val
               /\ a.val = Records(disk, h.order, h.long)[n].size

\* get_record_size(1) has answered on an indexed long-mode handle whose
\* cursor is not at the start, for a record that is a chain
C3_SizeOfChain ==
    /\ IndexedOnValid /\ h.long /\ h.pos # 0
    /\ last.op = "get_record_size" /\ last.arg = <<1>>
    /\ last.err = "none" /\ last.val > 0
    /\ Len(RefSubs(disk, 0, h.order, TRUE)) > Len(Records(disk, h.order, TRUE))

\* C4: for all n, goto_record(n) on a handle with an index and on a handle
\* of the same file without one have the same outcome: both leave the
\* cursor at the same offset, or both fail.
C4_SeekEquivalence ==
    (IndexedOnValid /\ last.op = "goto_record" /\ Len(last.arg) = 1)
        => LET b == goto_record(disk, Unindexed(h), last.arg)
           IN \/ last.err = "none" /\ b.err = "none" /\ h.pos = b.pos
              \/ last.err # "none" /\ b.err # "none"

\* C5: on a valid file of N records goto_record(N) fails, with the index
\* and without it; on a file of no records goto_record(n) fails for every n.
C5_GotoPastLastFails ==
    (/\ OpenRead /\ ValidFile(disk, h.order, h.long)
     /\ last.op = "goto_record" /\ Len(last.arg) = 1
     /\ \/ last.arg[1] = Len(Records(disk, h.order, h.long))
        \/ Records(disk, h.order, h.long) = <<>>)
        => last.err # "none"

(***************************************************************************)
(* A footer that does not match                                            *)
(***************************************************************************)
\* the subrecord at the cursor of the read handle is whole and its footer
\* does not match its header
BadFooterHere ==
    /\ OpenRead /\ h.pos < Len(disk)
    /\ LET sb == SubAt(disk, h.pos, h.order, h.long)
       IN sb.whole /\ ~sb.ok

HeadHere == SubAt(disk, h.pos, h.order, h.long).head

\* l is the return of a skip of one record or more, or of a read of the
\* record at the cursor
OnRecordHere(l) ==
    \/ l.op = "skip_record" /\ l.arg[1] >= 1
    \/ l.op \in {"read_record", "read_record_into", "mmap_record"} /\ l.arg = <<>>

\* the read l asks for bytes without a shape, or gives an array of the
\* handle's byte order with room for size bytes
FitsRecord(f, size, l) ==
    \/ l.op = "skip_record"
    \/ l.op \in {"read_record", "mmap_record"} /\ l.val = 1 /\ l.opt = <<>>
    \/ /\ l.op = "read_record_into" /\ l.bo = byteorder(f)
       /\ size <= Len(l.data) - (IF l.opt = <<>> THEN 0 ELSE Min(l.opt[1], Len(l.data)))

ErrorOnBadFooter(f, head, l) ==
    LET size == Abs(head)
        region == Len(l.data) - (IF l.opt = <<>> THEN 0 ELSE Min(l.opt[1], Len(l.data)))
        typed == IF size % l.val # 0 THEN "ValueError.multiple"
                 ELSE IF l.opt # <<>> /\ size # l.val * l.opt[1] THEN "ValueError.shape"
                 ELSE "ValueError.inconsistent"
    IN CASE l.op = "skip_record" -> "ValueError.inconsistent"
         [] l.op = "read_record" -> IF f.long THEN "ValueError.inconsistent" ELSE typed
         [] l.op = "mmap_record" -> IF f.long THEN "ValueError.memmap" ELSE typed
         [] l.op = "read_record_into" ->
                IF l.bo # byteorder(f) THEN "TypeError"
                ELSE IF ~f.long /\ size > region THEN "ValueError.buffer"
                ELSE "ValueError.inconsistent"

ChainsFrom(d, pos, order) ==
    RefGroup(d, SelectSeq(RefSubs(d, pos, order, TRUE), LAMBDA sb : sb.ok), 1, 0 - 1, 0, <<>>)

RECURSIVE SumSizes(_, _)
SumSizes(recs, n) == IF n = 0 THEN 0 ELSE recs[n].size + SumSizes(recs, n - 1)

\* C7: in long mode skip_record(count), started at count chains of
\* subrecords (each of headers h1..hk, all negative but the last), returns
\* the sum of abs(hi) over the chains and leaves the cursor behind the
\* last subrecord of the last chain.
C7_ChainAccumulation ==
    [][(/\ OpenRead /\ h.long
        /\ last'.op = "skip_record" /\ last'.arg[1] >= 1
        /\ Len(ChainsFrom(disk, h.pos, h.order)) >= last'.arg[1])
          => LET recs == ChainsFrom(disk, h.pos, h.order)
                 n == last'.arg[1]
             IN /\ last'.err = "none"
                /\ last'.val = SumSizes(recs, n)
                /\ h'.pos = recs[n].end]_vars

\* C7 without a header at the least value of the type
C7_ChainAccumulationInRange ==
    [][(/\ OpenRead /\ h.long
        /\ last'.op = "skip_record" /\ last'.arg[1] >= 1
        /\ Len(ChainsFrom(disk, h.pos, h.order)) >= last'.arg[1]
        /\ \A i \in 1..Len(RefSubs(disk, h.pos, h.order, TRUE)) :
               RefSubs(disk, h.pos, h.order, TRUE)[i].head # IMin)
          => LET recs == ChainsFrom(disk, h.pos, h.order)
                 n == last'.arg[1]
             IN /\ last'.err = "none"
                /\ last'.val = SumSizes(recs, n)
                /\ h'.pos = recs[n].end]_vars

\* C6 amended, headers at the least value of the type included
C6_BadFooterFailsAtExtremes ==
    [][(OnRecordHere(last') /\ BadFooterHere)
          => /\ last'.err # "none"
             /\ last'.err = ErrorOnBadFooter(h, HeadHere, last')]_vars

(***************************************************************************)
(* write_record                                                            *)
(***************************************************************************)
\* bytes are the envelope of data: header, payload, footer, with
\* header = footer = the number of bytes of data
IsEnvelope(bytes, data, order) ==
    /\ Len(bytes) = 2 * HeaderWidth + Len(data)
    /\ DecodeHeader(SubSeq(bytes, 1, HeaderWidth), order, FALSE) = Len(data)
    /\ SubSeq(bytes, HeaderWidth + 1, HeaderWidth + Len(data)) = data
    /\ DecodeHeader(SubSeq(bytes, HeaderWidth + Len(data) + 1, Len(bytes)), order, FALSE)
           = Len(data)

\* the file is the envelopes of recs one after the other
IsConcatenation(d, recs, order) ==
    /\ ValidFile(d, order, FALSE)
    /\ Len(Records(d, order, FALSE)) = Len(recs)
    /\ \A i \in 1..Len(recs) : Records(d, order, FALSE)[i].data = recs[i]

\* C8: each successful write_record of a payload of S bytes appends exactly
\* W + S + W bytes to the file, laid out as header, payload, footer with
\* header = footer = S.
C8_WriteAppendsEnvelope ==
    [][(last'.op = "write_record" /\ last'.err = "none")
          => /\ Len(disk') = Len(disk) + 2 * HeaderWidth + Len(last'.arg)
             /\ SubSeq(disk', 1, Len(disk)) = disk
             /\ IsEnvelope(SubSeq(disk', Len(disk) + 1, Len(disk')), last'.arg, h.order)]_vars

\* C8 for a handle on which goto_record has not moved the cursor: the
\* write appends the envelope, and the file is the concatenation of the
\* envelopes written so far, in call order
C8_WriteAppendsUnlessMoved ==
    [][(last'.op = "write_record" /\ last'.err = "none" /\ written.by = "writer")
          => /\ Len(disk') = Len(disk) + 2 * HeaderWidth + Len(last'.arg)
             /\ SubSeq(disk', 1, Len(disk)) = disk
             /\ IsEnvelope(SubSeq(disk', Len(disk) + 1, Len(disk')), last'.arg, h.order)
             /\ IsConcatenation(disk', written'.recs, h.order)]_vars

\* C9: write_record on a handle that is not in write mode fails with the
\* not-writable error, on a write handle with a signed header it fails with
\* the unsupported error, and in both cases no byte is written and the
\* handle is as it was.
C9_WriteGatedByMode ==
    [][(last'.op = "write_record" /\ (h.mode # "w" \/ h.long))
          => /\ last'.err = (IF h.mode # "w" THEN "IOError" ELSE "NotImplementedError")
             /\ disk' = disk
             /\ h' = h]_vars

\* write_record has been refused on a write handle with a signed header
C9_RefusedOnLong ==
    /\ last.op = "write_record" /\ last.err = "NotImplementedError"
    /\ h.st = "open" /\ h.mode = "w" /\ h.long

\* C10: write_record of a payload longer than the greatest value of the
\* header type, on a handle that can write, fails with the too-long error
\* before a byte of header, payload or footer is written: the file and the
\* cursor are as they were.
C10_TooLongWritesNothing ==
    [][(/\ last'.op = "write_record" /\ h.mode = "w" /\ ~h.long
        /\ Len(last'.arg) > UMax)
          => /\ last'.err = "ValueError.toolong"
             /\ disk' = disk
             /\ h' = h]_vars

\* a payload one byte too long has been refused on a file that holds a
\* record already
C10_RefusedAfterWrite ==
    /\ last.op = "write_record" /\ last.err = "ValueError.toolong"
    /\ Len(last.arg) = UMax + 1
    /\ h.st = "open" /\ h.mode = "w" /\ ~h.long
    /\ disk # <<>>

(***************************************************************************)
(* Reading in sequence                                                     *)
(***************************************************************************)
\* the records that stand whole in d from pos on
RecordsFrom(d, pos, order, long) ==
    RefGroup(d, SelectSeq(RefSubs(d, pos, order, long), LAMBDA sb : sb.ok), 1, 0 - 1, 0, <<>>)

ReadOps == {"read_record", "read_record_into", "mmap_record"}

\* the bytes of the record that the read l hands to the caller
BytesRead(l) ==
    IF l.op = "read_record_into"
    THEN SubSeq(l.data, into_start(l.data, l.opt) + 1, into_start(l.data, l.opt) + l.val)
    ELSE l.data

\* one read of the record at the cursor as bytes, by read_record,
\* read_record_into (into an array of the handle's byte order that has the
\* room) or mmap_record
ReadHere(op, d, f, room) ==
    IF op = "read_record" THEN read_record(d, f, 1, <<>>, <<>>, FALSE)
    ELSE IF op = "mmap_record" THEN mmap_record(d, f, 1, <<>>, <<>>)
    ELSE LET r == read_record_into(d, f, Repeat(Uninit, room), byteorder(f), <<>>, <<>>)
         IN [err |-> r.err, pos |-> r.pos, data |-> SubSeq(r.into, 1, r.val)]

\* reads with no record number, one after the other from the cursor of f,
\* return recs[i], recs[i + 1], ... with the cursor going forward to the end
\* of each, and the read after the last one fails
RECURSIVE ReadsInOrder(_, _, _, _, _)
ReadsInOrder(ops, d, f, recs, i) ==
    IF i > Len(recs)
    THEN \A op \in ops : ReadHere(op, d, f, 0).err # "none"
    ELSE \A op \in ops :
             LET r == ReadHere(op, d, f, recs[i].size)
             IN /\ r.err = "none"
                /\ r.data = recs[i].data
                /\ r.pos > f.pos
                /\ r.pos = recs[i].end
                /\ ReadsInOrder(ops, d, [f EXCEPT !.pos = r.pos], recs, i + 1)

\* the reads a handle has: mmap_record is for simple mode
ReadOpsOf(f) == IF f.long THEN ReadOps \ {"mmap_record"} ELSE ReadOps

\* the record the call l is asked for on the handle f, as a list of one
\* record: the one at the cursor, or the one of the number given on a valid
\* file; no record otherwise
RecordAsked(d, f, l) ==
    IF l.arg = <<>>
    THEN IF RecordsFrom(d, f.pos, f.order, f.long) = <<>> THEN <<>>
         ELSE <<RecordsFrom(d, f.pos, f.order, f.long)[1]>>
    ELSE IF /\ ValidFile(d, f.order, f.long)
            /\ 0 <= l.arg[1] /\ l.arg[1] < Len(Records(d, f.order, f.long))
    THEN <<Records(d, f.order, f.long)[l.arg[1] + 1]>>
    ELSE <<>>

\* a read handle has just been opened on a valid file
FreshOnValid ==
    /\ last'.op = "open" /\ last'.err = "none" /\ h'.mode = "r"
    /\ ValidFile(disk', h'.order, h'.long)

\* no header of the file is the least value of the signed type
InRange(d, order, long) ==
    long => \A subs \in {RefSubs(d, 0, order, TRUE)} : \A i \in 1..Len(subs) : subs[i].head # IMin

\* C11: after a successful read_record, read_record_into or mmap_record of
\* record n the cursor is at the end of record n, which is the header of
\* record n + 1 or the end of the file; and on a freshly opened file of N
\* records, successive reads with no record number return records 0, 1,
\* ... in file order with a strictly increasing cursor, and the read after
\* the N-th fails.
C11_SequentialOrder ==
    [][/\ (/\ OpenRead /\ last'.op \in ReadOps /\ last'.err = "none"
           /\ RecordAsked(disk, h, last') # <<>>)
              => /\ h'.pos = RecordAsked(disk, h, last')[1].end
                 /\ BytesRead(last') = RecordAsked(disk, h, last')[1].data
       /\ FreshOnValid
              => ReadsInOrder(ReadOpsOf(h'), disk', h',
                              Records(disk', h'.order, h'.long), 1)]_vars

\* C11 for the files that have no header at the least value of the type
C11_SequentialOrderInRange ==
    [][/\ (/\ OpenRead /\ last'.op \in ReadOps /\ last'.err = "none"
           /\ RecordAsked(disk, h, last') # <<>>)
              => /\ h'.pos = RecordAsked(disk, h, last')[1].end
                 /\ BytesRead(last') = RecordAsked(disk, h, last')[1].data
       /\ (FreshOnValid /\ InRange(disk', h'.order, h'.long))
              => ReadsInOrder(ReadOpsOf(h'), disk', h',
                              Records(disk', h'.order, h'.long), 1)]_vars

(***************************************************************************)
(* The cursor                                                              *)
(***************************************************************************)
\* C12: a get_record_size that succeeds, for a record number or for the
\* record at the cursor, in simple and in long mode, with the index and
\* without it, leaves the cursor at the offset it had before the call (and
\* the rest of the handle and the file as they were).
C12_SizeQueryKeepsCursor ==
    [][(last'.op = "get_record_size" /\ last'.err = "none")
          => /\ h'.pos = h.pos
             /\ h' = h
             /\ disk' = disk]_vars

\* get_record_size(1) has measured a chain by walking from the start of the
\* file, on a long-mode handle without index whose cursor is elsewhere
C12_MeasuredElsewhere ==
    /\ OpenRead /\ h.long /\ ~h.indexed /\ ValidFile(disk, h.order, TRUE)
    /\ last.op = "get_record_size" /\ last.arg = <<1>>
    /\ last.err = "none" /\ last.val > 0
    /\ Len(Records(disk, h.order, TRUE)) >= 2
    /\ h.pos # Records(disk, h.order, TRUE)[2].off
    /\ h.pos # Records(disk, h.order, TRUE)[2].end

(***************************************************************************)
(* mmap_record and read_record                                             *)
(***************************************************************************)
\* the outcome of the step is the outcome r of the other call: both fail,
\* or both return the same bytes and leave the cursor at the same offset
SameOutcome(r) ==
    /\ (last'.err = "none") <=> (r.err = "none")
    /\ last'.err = "none" => (last'.data = r.data /\ h'.pos = r.pos)

\* C13: in simple mode mmap_record(n) and read_record(n), called with the
\* same type and shape on the same handle, both fail or both succeed, and
\* when they succeed they return the same bytes and leave the cursor at the
\* same offset; for a record of the file the bytes are the size bytes that
\* start one header width after the offset of the record, and the cursor
\* is left at the end of the record.  In long mode mmap_record fails with
\* the unsupported error and the cursor stays where it was.
C13_MmapEquivalence ==
    [][/\ (OpenRead /\ ~h.long /\ last'.op = "mmap_record")
              => /\ SameOutcome(read_record(disk, h, last'.val, last'.opt, last'.arg, FALSE))
                 /\ (last'.err = "none" /\ RecordAsked(disk, h, last') # <<>>)
                        => LET rec == RecordAsked(disk, h, last')[1]
                           IN /\ last'.data = SubSeq(disk, rec.off + HeaderWidth + 1,
                                                     rec.off + HeaderWidth + rec.size)
                              /\ h'.pos = rec.end
       /\ (OpenRead /\ ~h.long /\ last'.op = "read_record")
              => SameOutcome(mmap_record(disk, h, last'.val, last'.opt, last'.arg))
       /\ (OpenRead /\ h.long /\ last'.op = "mmap_record")
              => /\ last'.err = "ValueError.memmap"
                 /\ h' = h]_vars

\* mmap_record(1) has returned the bytes of the second record of a file in
\* simple mode
C13_MappedSecond ==
    /\ OpenRead /\ ~h.long /\ ValidFile(disk, h.order, FALSE)
    /\ last.op = "mmap_record" /\ last.arg = <<1>> /\ last.err = "none"
    /\ last.data # <<>>
    /\ Len(Records(disk, h.order, FALSE)) >= 2
    /\ last.data = Records(disk, h.order, FALSE)[2].data

(***************************************************************************)
(* Where the cursor can be                                                 *)
(***************************************************************************)
\* the offsets at which a subrecord of d starts, going from pos by the
\* headers alone (header, abs(header) bytes, footer), and the end of d
RECURSIVE Boundaries(_, _, _, _)
Boundaries(d, pos, order, long) ==
    IF pos >= Len(d) THEN {Len(d)}
    ELSE IF pos + HeaderWidth > Len(d) THEN {pos, Len(d)}
    ELSE {pos} \cup
         Boundaries(d, pos + 2 * HeaderWidth
                           + Abs(DecodeHeader(SubSeq(d, pos + 1, pos + HeaderWidth), order, long)),
                    order, long)

\* C14: in every state of a read handle, after the open and after every
\* call, the calls that fail included, the cursor is at the start of a
\* subrecord or at the end of the file: never inside a payload, never
\* beyond the end of the file.
C14_CursorOnBoundary ==
    OpenRead => h.pos \in Boundaries(disk, 0, h.order, h.long)

\* C14 on the files that are valid in the byte order of the handle and
\* have no header at the least value of the type
C14_CursorOnBoundaryOfValid ==
    (OpenRead /\ ValidFile(disk, h.order, h.long) /\ InRange(disk, h.order, h.long))
        => h.pos \in Boundaries(disk, 0, h.order, h.long)

\* C14 after the calls that return
C14_CursorOnBoundaryAfterSuccess ==
    [][(OpenRead /\ h.pos \in Boundaries(disk, 0, h.order, h.long)
        /\ h'.st = "open" /\ last'.err = "none")
          => h'.pos \in Boundaries(disk, 0, h.order, h.long)]_vars

(***************************************************************************)
(* What the byte-order probe looks at                                      *)
(***************************************************************************)
\* the step is an open in read mode with auto_endian on, of a file that
\* exists and has no header at the least value of the type in either order
ProbedOpen ==
    /\ exists /\ last'.op = "open" /\ last'.cfg.mode = "r" /\ last'.cfg.auto
    /\ \A o \in Orders : InRange(disk, o, last'.cfg.long)

\* record 0 of d stands whole and consistent in the given order
FirstOk(d, order, long) == RecordsFrom(d, 0, order, long) # <<>>

\* record 0 stands, and the subrecord behind it is inside the file with a
\* footer that does not match its header
SecondBroken(d, order, long) ==
    /\ FirstOk(d, order, long)
    /\ LET e == RecordsFrom(d, 0, order, long)[1].end
       IN /\ e < Len(d)
          /\ SubAt(d, e, order, long).whole
          /\ ~SubAt(d, e, order, long).ok

\* d is one record and nothing else
OneRecord(d, order, long) ==
    ValidFile(d, order, long) /\ Len(Records(d, order, long)) = 1

Probed(d, order, long) ==
    IF FirstOk(d, order, long) THEN order
    ELSE IF FirstOk(d, newbyteorder(order), long) THEN newbyteorder(order)
    ELSE "none"

FailedOpen ==
    /\ exists /\ last'.op = "open" /\ last'.cfg.mode = "r"
    /\ last'.err \notin {"none", "hang"}

\* C16: whenever an open in read mode fails in the byte-order probe or in
\* the indexing scan, whatever the content of the file, the file object is
\* closed when the failure is raised.
C16_FailedOpenCloses ==
    [][FailedOpen => h'.fp = "closed"]_vars

\* C16 for the files that have no header at the least value of the type
C16_FailedOpenClosesInRange ==
    [][(FailedOpen /\ \A o \in Orders : InRange(disk, o, last'.cfg.long))
          => (last'.err = "ValueError.invalid" /\ h'.fp = "closed")]_vars

(***************************************************************************)
(* The index                                                               *)
(***************************************************************************)
\* the step is an open in read mode with check_file on, of a file that
\* exists
IndexingOpen == exists /\ last'.op = "open" /\ last'.cfg.mode = "r" /\ last'.cfg.check

\* the index of f is the list of the records of d: one entry for each, in
\* file order, with the offset and the size of the record; the first record
\* starts at 0, each one ends where the next one starts (so that offsets
\* increase strictly) and the last one ends at the end of the file
ExactIndex(d, f) ==
    LET recs == Records(d, f.order, f.long)
    IN /\ f.indexed
       /\ ValidFile(d, f.order, f.long)
       /\ Len(f.offsets) = Len(recs) /\ Len(f.lengths) = Len(recs)
       /\ \A i \in 1..Len(recs) :
              /\ f.offsets[i] = recs[i].off
              /\ f.lengths[i] = recs[i].size
              /\ f.offsets[i] + f.lengths[i] + 2 * HeaderWidth <= recs[i].end
              /\ recs[i].end = (IF i < Len(recs) THEN f.offsets[i + 1] ELSE f.filesize)
              /\ i < Len(recs) => f.offsets[i] < f.offsets[i + 1]
       /\ Len(recs) > 0 => f.offsets[1] = 0
       /\ f.filesize = Len(d)

\* C17: an open with indexing on returns or raises (the scan ends) for
\* every file; when it returns, the index has one entry per logical record
\* in file order, offsets[0] = 0, each offset plus the full extent of its
\* record is the next offset, the last record ends at file_size and the
\* cursor is 0; when it raises, no index is kept.
C17_IndexExact ==
    [][IndexingOpen
          => /\ last'.err # "hang"
             /\ last'.err = "none" => (ExactIndex(disk', h') /\ h'.pos = 0)
             /\ last'.err # "none" => (~h'.indexed /\ h'.offsets = <<>> /\ h'.lengths = <<>>)]_vars

\* C17 for the files that have no header at the least value of the type
C17_IndexExactInRange ==
    [][(IndexingOpen /\ \A o \in Orders : InRange(disk, o, last'.cfg.long))
          => /\ last'.err # "hang"
             /\ last'.err = "none" => (ExactIndex(disk', h') /\ h'.pos = 0)
             /\ last'.err # "none" => (~h'.indexed /\ h'.offsets = <<>> /\ h'.lengths = <<>>)]_vars

(***************************************************************************)
(* The size of a record whose footer does not match                        *)
(***************************************************************************)
\* the record of d that starts at pos has a footer that does not match: the
\* subrecords from pos on are continuations up to one that is inside the
\* file with a footer that differs from its header; no header is the least
\* value of the type
BrokenAt(d, pos, order, long) ==
    /\ 0 <= pos /\ pos < Len(d)
    /\ \A subs \in {RefSubs(d, pos, order, long)} :
           /\ subs # <<>>
           /\ subs[Len(subs)].whole /\ ~subs[Len(subs)].ok
           /\ \A i \in 1..(Len(subs) - 1) : subs[i].head < 0
           /\ \A i \in 1..Len(subs) : subs[i].head # IMin

\* where the record the size query l asks for starts: at the cursor, or
\* behind the first n records when they stand whole; -1 otherwise
AskedAt(d, f, l) ==
    IF l.arg = <<>> THEN f.pos
    ELSE IF l.arg[1] = 0 THEN 0
    ELSE CHOOSE at \in {IF Len(recs) >= l.arg[1] THEN recs[l.arg[1]].end ELSE 0 - 1 :
                         recs \in {IF InRange(d, f.order, f.long)
                                   THEN RecordsFrom(d, 0, f.order, f.long) ELSE <<>>}} : TRUE

\* the step is a size query, not answered from the index, for a record
\* whose footer does not match
SizeOfBroken ==
    /\ OpenRead /\ last'.op = "get_record_size"
    /\ ~(h.indexed /\ last'.arg # <<>>)
    /\ \A at \in {AskedAt(disk, h, last')} : BrokenAt(disk, at, h.order, h.long)

ChainOf(subs) ==
    SubSeq(subs, 1, CHOOSE i \in 1..Len(subs) :
                        subs[i].head >= 0 /\ \A j \in 1..(i - 1) : subs[j].head < 0)

ChainAt(d, pos, order) ==
    CHOOSE c \in {ChainOf(subs) : subs \in {RefSubs(d, pos, order, TRUE)}} : TRUE

\* sum of abs(header) over the first n subrecords
RECURSIVE SumHeads(_, _)
SumHeads(subs, n) == IF n = 0 THEN 0 ELSE Abs(subs[n].head) + SumHeads(subs, n - 1)

\* bytes are the payloads of the subrecords one after the other, the i-th
\* starting at the sum of abs(header) of the ones before it
IsStitched(bytes, d, subs) ==
    /\ Len(bytes) = SumHeads(subs, Len(subs))
    /\ \A i \in 1..Len(subs) :
           SubSeq(bytes, SumHeads(subs, i - 1) + 1, SumHeads(subs, i))
               = SubSeq(d, subs[i].off + HeaderWidth + 1,
                        subs[i].off + HeaderWidth + Abs(subs[i].head))

\* the step is a read_record or a read_record_into that returns, on a
\* long-mode handle, for a record that stands whole in the file
ChainRead ==
    /\ OpenRead /\ h.long
    /\ last'.op \in {"read_record", "read_record_into"} /\ last'.err = "none"
    /\ RecordAsked(disk, h, last') # <<>>

\* the call has returned r with the value n
Gives(r, n) == r.err = "none" /\ r.val = n

\* the read l has handed back the chain subs of d, and the size queries on
\* the handle at (its cursor at the chain) give the sum of the headers
StitchedAs(l, d, at, subs) ==
    /\ IsStitched(BytesRead(l), d, subs)
    /\ l.op = "read_record_into" => l.val = SumHeads(subs, Len(subs))
    /\ Gives(get_record_size(d, at, <<>>), SumHeads(subs, Len(subs)))
    /\ Gives(skip_record(d, at, 1), SumHeads(subs, Len(subs)))

\* C19: in long mode a read_record or read_record_into that succeeds hands
\* back the payloads of the subrecords of the record one after the other in
\* file order, the i-th starting at the sum of abs(hj) for j < i; the
\* number of bytes read is the sum of abs(header) over the chain, and that
\* is the value get_record_size and skip_record give for the same record.
C19_ChainReadStitches ==
    [][ChainRead
          => \A rec \in {RecordAsked(disk, h, last')[1]} :
                 \A subs \in {ChainAt(disk, rec.off, h.order)} :
                     StitchedAs(last', disk, [h EXCEPT !.pos = rec.off], subs)]_vars

\* read_record_into(rec 0) has filled the array from a chain of two
\* subrecords that have a payload each
C19_TwoPayloads ==
    /\ OpenRead /\ h.long /\ ValidFile(disk, h.order, TRUE)
    /\ last.op = "read_record_into" /\ last.arg = <<0>> /\ last.err = "none"
    /\ Len(ChainAt(disk, 0, h.order)) = 2
    /\ \A i \in 1..2 : ChainAt(disk, 0, h.order)[i].head # 0
    /\ last.val = 2

(***************************************************************************)
(* read_record_into and the caller's array                                 *)
(***************************************************************************)
\* the array, byte order and offset that the call l of read_record_into
\* was given
IntoGiven(l) ==
    CHOOSE a \in IntoArgs : Len(a.into) = Len(l.data) /\ a.bo = l.bo /\ a.offset = l.opt

\* the step is a read_record_into with an array of the handle's byte
\* order, for a record that stands whole in the file
IntoRecord ==
    /\ OpenRead /\ last'.op = "read_record_into" /\ last'.bo = byteorder(h)
    /\ RecordAsked(disk, h, last') # <<>>

\* what C20 says of the call l that was given the array into, for the
\* record rec, a0 being the first byte of the region and pos the cursor
\* after the call
IntoFillsRegion(l, into, a0, rec, pos) ==
    IF rec.size > Len(into) - a0
    THEN /\ l.err = "ValueError.buffer"
         /\ l.data = into
         /\ pos = rec.off
    ELSE /\ l.err = "none"
         /\ l.val = rec.size
         /\ SubSeq(l.data, a0 + 1, a0 + rec.size) = rec.data
         /\ Len(l.data) = Len(into)
         /\ \A i \in 1..Len(into) : (i <= a0 \/ i > a0 + rec.size) => l.data[i] = into[i]

\* C20: read_record_into on a region (the bytes of the array from
\* byte_offset on) that is smaller than the size of the record fails with
\* the buffer-too-small error with the array unchanged and the cursor at
\* the header of the record; on a region that is large enough it writes
\* the size bytes of the record from byte_offset on and leaves every other
\* byte of the array as it was.
C20_IntoRegion ==
    [][IntoRecord
          => IntoFillsRegion(last', IntoGiven(last').into,
                             into_start(IntoGiven(last').into, last'.opt),
                             RecordAsked(disk, h, last')[1], h'.pos)]_vars

\* C20 for the records that have no header at the least value of the type
C20_IntoRegionInRange ==
    [][(/\ IntoRecord
        /\ \A sb \in {RefSubs(disk, RecordAsked(disk, h, last')[1].off, h.order, h.long)[i] :
                      i \in 1..Len(RefSubs(disk, RecordAsked(disk, h, last')[1].off,
                                           h.order, h.long))} : sb.head # IMin
        /\ InRange(disk, h.order, h.long))
          => IntoFillsRegion(last', IntoGiven(last').into,
                             into_start(IntoGiven(last').into, last'.opt),
                             RecordAsked(disk, h, last')[1], h'.pos)]_vars

====
